---------------------------- MODULE Spec2Model ----------------------------
(* A model of comic_panel_splitter/main.py: panel detection on pixel grids *)
(* (split_into_rows, split_into_cols, ComicBookPage.split_panels) and the  *)
(* archive pipeline (ComicBook.from_file, split_panels, save).             *)
(*                                                                         *)
(* A string is a sequence of one-character strings, compared by code       *)
(* point as Python compares str.  An image is a record                     *)
(* [size |-> <<width, height>>, px |-> rows of RGB triples], indexed from  *)
(* 0 as PIL's getpixel((x, y)) is: px[y][x].                               *)
EXTENDS Integers, Sequences, FiniteSets, TLC

VARIABLES
    pc,          \* position of main(), or of the single-page run
    archive,     \* the input container: a set of entries [name, kind, data]
    inFile,      \* suffix of the path given to ComicBook.from_file
    outFile,     \* suffix of the path given to ComicBook.save
    book,        \* ComicBook.pages
    outArchive,  \* the entries written to the output container, in order
    err,         \* the exception that ended the run, "" if none
    page,        \* single-page run: the ComicBookPage under test
    rows,        \* single-page run: split_into_rows(page.image)
    panels,      \* single-page run: page.split_panels()
    resplit      \* single-page run: split_panels() of every panel

vars == <<pc, archive, inFile, outFile, book, outArchive, err,
          page, rows, panels, resplit>>

-----------------------------------------------------------------------------
(* Strings *)

Ord(c) ==
    CASE c = "." -> 46 [] c = "/" -> 47
      [] c = "0" -> 48 [] c = "1" -> 49 [] c = "2" -> 50 [] c = "3" -> 51
      [] c = "4" -> 52 [] c = "5" -> 53 [] c = "6" -> 54 [] c = "7" -> 55
      [] c = "8" -> 56 [] c = "9" -> 57
      [] c = "E" -> 69 [] c = "G" -> 71 [] c = "J" -> 74 [] c = "N" -> 78
      [] c = "P" -> 80
      [] c = "_" -> 95
      [] c = "e" -> 101 [] c = "g" -> 103 [] c = "j" -> 106 [] c = "n" -> 110
      [] c = "p" -> 112

\* str.upper() on one character
UpperChar(c) ==
    CASE c = "e" -> "E" [] c = "g" -> "G" [] c = "j" -> "J" [] c = "n" -> "N"
      [] c = "p" -> "P" [] OTHER -> c

Upper(s) == [i \in 1..Len(s) |-> UpperChar(s[i])]

\* s < t in Python's str order: the first differing code point decides, a
\* proper prefix is smaller
RECURSIVE StrLt(_, _)
StrLt(s, t) ==
    IF t = <<>> THEN FALSE
    ELSE IF s = <<>> THEN TRUE
    ELSE IF Ord(Head(s)) # Ord(Head(t)) THEN Ord(Head(s)) < Ord(Head(t))
    ELSE StrLt(Tail(s), Tail(t))

EndsWithSlash(name) == Len(name) >= 1 /\ name[Len(name)] = "/"

\* s.split("."): the fields between the dots, at least one field
RECURSIVE SplitDot(_)
SplitDot(s) ==
    IF \A i \in 1..Len(s) : s[i] # "." THEN <<s>>
    ELSE LET i == CHOOSE k \in 1..Len(s) :
                      s[k] = "." /\ \A m \in 1..(k - 1) : s[m] # "."
         IN <<SubSeq(s, 1, i - 1)>> \o SplitDot(SubSeq(s, i + 1, Len(s)))

\* ".".join(fields)
RECURSIVE JoinDot(_)
JoinDot(fields) ==
    IF Len(fields) = 1 THEN fields[1]
    ELSE fields[1] \o <<".">> \o JoinDot(Tail(fields))

Digit(d) ==
    CASE d = 0 -> "0" [] d = 1 -> "1" [] d = 2 -> "2" [] d = 3 -> "3"
      [] d = 4 -> "4" [] d = 5 -> "5" [] d = 6 -> "6" [] d = 7 -> "7"
      [] d = 8 -> "8" [] d = 9 -> "9"

RECURSIVE Decimal(_)
Decimal(n) == IF n < 10 THEN <<Digit(n)>>
              ELSE Decimal(n \div 10) \o <<Digit(n % 10)>>

RECURSIVE ZeroPad(_, _)
ZeroPad(s, width) == IF Len(s) >= width THEN s ELSE ZeroPad(<<"0">> \o s, width)

\* f"{n:04d}": decimal, zero padded to at least four characters
Format04d(n) == ZeroPad(Decimal(n), 4)

\* sorted(names): insertion of each name after the names not greater than it
RECURSIVE InsertSorted(_, _)
InsertSorted(name, s) ==
    IF s = <<>> THEN <<name>>
    ELSE IF StrLt(name, Head(s)) THEN <<name>> \o s
    ELSE <<Head(s)>> \o InsertSorted(name, Tail(s))

RECURSIVE Sorted(_)
Sorted(names) ==
    IF names = <<>> THEN <<>>
    ELSE InsertSorted(names[Len(names)], Sorted(SubSeq(names, 1, Len(names) - 1)))

-----------------------------------------------------------------------------
(* Images *)

Width(image) == image.size[1]
Height(image) == image.size[2]

\* image.getpixel((x, y))
GetPixel(image, x, y) == image.px[y][x]

\* one pixel of image.convert("L"): PIL's ITU-R 601-2 luma in 16-bit fixed point
Luma(rgb) == (rgb[1] * 19595 + rgb[2] * 38470 + rgb[3] * 7471 + 32768) \div 65536

\* image.crop((left, upper, right, lower))
Crop(image, left, upper, right, lower) ==
    [size |-> <<right - left, lower - upper>>,
     px |-> [y \in 0..(lower - upper - 1) |->
                [x \in 0..(right - left - 1) |-> image.px[y + upper][x + left]]]]

\* image.transpose(Image.ROTATE_270): a quarter turn clockwise, the left edge
\* becomes the top edge
Rotate270(image) ==
    [size |-> <<Height(image), Width(image)>>,
     px |-> [y \in 0..(Width(image) - 1) |->
                [x \in 0..(Height(image) - 1) |->
                    image.px[Height(image) - 1 - x][y]]]]

\* image.transpose(Image.ROTATE_90): a quarter turn counter-clockwise
Rotate90(image) ==
    [size |-> <<Height(image), Width(image)>>,
     px |-> [y \in 0..(Width(image) - 1) |->
                [x \in 0..(Height(image) - 1) |->
                    image.px[x][Width(image) - 1 - y]]]]

-----------------------------------------------------------------------------
(* split_into_rows *)

WHITE_THRESHOLD == 235
PANEL_WIDTH_THRESHOLD == 30
\* WHITE_PAGE_NUM_WHITE_ROWS_THRESHOLD = 0.4 as the fraction 2/5
WHITE_PAGE_NUM == 2
WHITE_PAGE_DEN == 5

\* sum(image_bw.getpixel((x, y)) for x in range(lo, hi)), summed by halves to
\* keep the evaluation shallow
RECURSIVE RowSum(_, _, _, _)
RowSum(image, y, lo, hi) ==
    IF hi <= lo THEN 0
    ELSE IF hi = lo + 1 THEN Luma(GetPixel(image, lo, y))
    ELSE LET mid == (lo + hi) \div 2
         IN RowSum(image, y, lo, mid) + RowSum(image, y, mid, hi)

\* y_avg_sum[y] >= WHITE_THRESHOLD.  The mean sum/width is a quotient of
\* integers, so it is compared exactly as sum >= WHITE_THRESHOLD * width.
IsWhiteRow(image, y) ==
    RowSum(image, y, 0, Width(image)) >= WHITE_THRESHOLD * Width(image)

\* the rows z of y_avg_sum with z >= WHITE_THRESHOLD, as a row -> BOOLEAN table
WhiteRows(image) == [y \in 0..(Height(image) - 1) |-> IsWhiteRow(image, y)]

\* IsWhitePage with the comparison turned round
IsWhitePage_Flipped(image, white) ==
    WHITE_PAGE_DEN * Cardinality({y \in DOMAIN white : white[y]})
        < WHITE_PAGE_NUM * Height(image)

\* num_white_rows / image.size[1] > 0.4
IsWhitePage(image, white) ==
    WHITE_PAGE_DEN * Cardinality({y \in DOMAIN white : white[y]})
        > WHITE_PAGE_NUM * Height(image)

\* ScanRow with y_prev_white moved only by a white row that closes a box
ScanRow_MoveOnClose(white, y, scan) ==
    IF white[y] /\ y - scan.y_prev_white >= PANEL_WIDTH_THRESHOLD
    THEN [y_prev_white |-> y,
          boxes |-> Append(scan.boxes, <<scan.y_prev_white, y>>)]
    ELSE scan

\* ScanRow with the white row itself taken into the box it closes
ScanRow_LowerInclusive(white, y, scan) ==
    IF white[y]
    THEN [y_prev_white |-> y,
          boxes |-> IF y - scan.y_prev_white >= PANEL_WIDTH_THRESHOLD
                    THEN Append(scan.boxes, <<scan.y_prev_white, y + 1>>)
                    ELSE scan.boxes]
    ELSE scan

\* one turn of the loop over y: a white row closes the box
\* (y_prev_white, y) when that box is thick enough, and y_prev_white moves to
\* the row whether or not a box was closed
ScanRow(white, y, scan) ==
    IF white[y]
    THEN [y_prev_white |-> y,
          boxes |-> IF y - scan.y_prev_white >= PANEL_WIDTH_THRESHOLD
                    THEN Append(scan.boxes, <<scan.y_prev_white, y>>)
                    ELSE scan.boxes]
    ELSE scan

\* for y in range(lo, hi): the rows lo..mid-1, then the rows mid..hi-1 from
\* the state the first half left.  y_prev_white is a row already visited, so
\* the test on it always holds; it makes TLC finish the first half before it
\* starts the second, which keeps the evaluation shallow.
RECURSIVE ScanRows(_, _, _, _)
ScanRows(white, lo, hi, scan) ==
    IF hi <= lo THEN scan
    ELSE IF hi = lo + 1 THEN ScanRow(white, lo, scan)
    ELSE LET mid == (lo + hi) \div 2
             first == ScanRows(white, lo, mid, scan)
         IN IF first.y_prev_white < mid
            THEN ScanRows(white, mid, hi, first)
            ELSE first

\* RowBoxes without the box from the last white row to the bottom edge
RowBoxes_NoLast(white, height) ==
    ScanRows(white, 0, height, [y_prev_white |-> 0, boxes |-> <<>>]).boxes

\* the (upper, lower) row ranges of the crops of lines 38-51: the loop's boxes
\* and then the box from the last white row to the bottom edge
RowBoxes(white, height) ==
    LET scan == ScanRows(white, 0, height, [y_prev_white |-> 0, boxes |-> <<>>])
    IN IF height - scan.y_prev_white >= PANEL_WIDTH_THRESHOLD
       THEN Append(scan.boxes, <<scan.y_prev_white, height>>)
       ELSE scan.boxes

split_into_rows(image) ==
    LET white == WhiteRows(image)
    IN IF IsWhitePage(image, white)
       THEN <<image>>
       ELSE LET boxes == RowBoxes(white, Height(image))
            IN [i \in 1..Len(boxes) |->
                   Crop(image, 0, boxes[i][1], Width(image), boxes[i][2])]

split_into_cols(image) ==
    LET bands == split_into_rows(Rotate270(image))
    IN [i \in 1..Len(bands) |-> Rotate90(bands[i])]

-----------------------------------------------------------------------------
(* ComicBookPage *)

\* UnderscoreRowCol with the column written before the row
UnderscoreRowCol_Swapped(row, col) ==
    <<"_">> \o Format04d(col) \o <<"_">> \o Format04d(row)

UnderscoreRowCol(row, col) ==
    <<"_">> \o Format04d(row) \o <<"_">> \o Format04d(col)

\* get_new_filename(row, col); fields[-2] exists only when the filename holds
\* a dot
get_new_filename(filename, row, col) ==
    LET fields == SplitDot(filename)
        n == Len(fields)
    IN JoinDot([fields EXCEPT ![n - 1] = @ \o UnderscoreRowCol(row, col)])

\* the pages of one row of panels, columns left to right (enumerate from 0)
RowPanels(filename, row, panel_row) ==
    LET cols == split_into_cols(panel_row)
    IN [c \in 1..Len(cols) |->
           [image |-> cols[c], filename |-> get_new_filename(filename, row, c - 1)]]

RECURSIVE PanelsFromRow(_, _, _)
PanelsFromRow(filename, panel_rows, r) ==
    IF r > Len(panel_rows) THEN <<>>
    ELSE RowPanels(filename, r - 1, panel_rows[r])
             \o PanelsFromRow(filename, panel_rows, r + 1)

\* ComicBookPage.split_panels: row-major over split_into_rows, then
\* split_into_cols of each row
ComicBookPage_split_panels(p) ==
    PanelsFromRow(p.filename, split_into_rows(p.image), 1)

\* get_new_filename raises IndexError on a filename without a dot; it is
\* called once per panel, so only when the page yields a panel
SplitPanelsRaises(p) ==
    /\ Len(SplitDot(p.filename)) < 2
    /\ \E r \in DOMAIN split_into_rows(p.image) :
           split_into_cols(split_into_rows(p.image)[r]) # <<>>

\* ComicBookPage.save: the format is the upper-cased text after the last dot
SaveFormat(filename) ==
    LET fields == SplitDot(filename)
    IN Upper(fields[Len(fields)])

SaveFormatKnown(filename) ==
    SaveFormat(filename) \in {<<"J", "P", "G">>, <<"J", "P", "E", "G">>}

-----------------------------------------------------------------------------
(* ComicBook *)

KnownSuffix(suffix) == suffix \in {".cbr", ".cbz"}

\* file.namelist() in the container's physical order: any order of the entries
NameLists(entries) ==
    {[i \in 1..Cardinality(entries) |-> order[i].name] :
        order \in {f \in [1..Cardinality(entries) -> entries] :
                      \A i, j \in DOMAIN f : i # j => f[i] # f[j]}}

EntryNamed(entries, name) == CHOOSE e \in entries : e.name = name

\* ComicBookPage.from_file raises: Image.open failed with something other
\* than UnidentifiedImageError, or image.convert("RGB"), outside the try,
\* failed to decode the pixel data
PageFromFileRaises(entry) == entry.kind = "corrupt"

\* ComicBookPage.from_file returns None: Image.open raised
\* UnidentifiedImageError
PageFromFileIsNone(entry) == entry.kind = "unidentified"

ComicBookPage_from_file(entry) == [image |-> entry.data, filename |-> entry.name]

\* the names the comprehension of lines 121-127 opens, in its order
OpenedNames(namelist) == SelectSeq(Sorted(namelist), LAMBDA n : ~EndsWithSlash(n))

RECURSIVE LoadPages(_, _)
LoadPages(entries, names) ==
    IF names = <<>> THEN <<>>
    ELSE LET e == EntryNamed(entries, Head(names))
         IN (IF PageFromFileIsNone(e) THEN <<>> ELSE <<ComicBookPage_from_file(e)>>)
                \o LoadPages(entries, Tail(names))

RECURSIVE SplitPages(_)
SplitPages(pages) ==
    IF pages = <<>> THEN <<>>
    ELSE ComicBookPage_split_panels(Head(pages)) \o SplitPages(Tail(pages))

\* the pages the loop of lines 142-144 opens an entry for: all of them, or
\* those up to the first page whose format ComicBookPage.save rejects
RECURSIVE WrittenEntries(_)
WrittenEntries(pages) ==
    IF pages = <<>> THEN <<>>
    ELSE IF SaveFormatKnown(Head(pages).filename)
         THEN <<[name |-> Head(pages).filename, format |-> "JPEG"]>>
                  \o WrittenEntries(Tail(pages))
         ELSE <<[name |-> Head(pages).filename, format |-> ""]>>

NoArchive == [created |-> FALSE, entries |-> <<>>]

-----------------------------------------------------------------------------
(* Inputs *)

\* the most bands a generated page alternates between
MaxSegs == 3
\* the most entries of a generated archive
MaxEntries == 2

White == <<255, 255, 255>>
Black == <<0, 0, 0>>
\* luma 240: blank without being white
LightGray == <<240, 240, 240>>
\* luma 226: bright, yet below the whiteness threshold
Yellow == <<255, 255, 0>>

\* a decoded RGB page: row y has the colour rowColour[y + 1], except in the
\* gutter columns (gutter[x + 1]), which are white from top to bottom
Paint(rowColour, gutter) ==
    [size |-> <<Len(gutter), Len(rowColour)>>,
     px |-> [y \in 0..(Len(rowColour) - 1) |->
                [x \in 0..(Len(gutter) - 1) |->
                    IF gutter[x + 1] THEN White ELSE rowColour[y + 1]]]]

Repeat(v, n) == [i \in 1..n |-> v]

RECURSIVE Stack(_)
Stack(segs) ==
    IF segs = <<>> THEN <<>>
    ELSE Repeat(Head(segs)[1], Head(segs)[2]) \o Stack(Tail(segs))

SegLens ==
    {1, PANEL_WIDTH_THRESHOLD - 2, PANEL_WIDTH_THRESHOLD - 1, PANEL_WIDTH_THRESHOLD}
PageWidths == {1, PANEL_WIDTH_THRESHOLD - 1, PANEL_WIDTH_THRESHOLD}

\* pages of k alternating full-width bands, black and white, the first one
\* black iff dark
BandPages(k) ==
    {Paint(Stack([i \in 1..k |->
                    <<IF (i % 2 = 1) = dark THEN Black ELSE White, lens[i]>>]),
           Repeat(FALSE, w)) :
        lens \in [1..k -> SegLens], dark \in BOOLEAN, w \in PageWidths}

\* pages of one colour
UniformPages ==
    {Paint(Repeat(c, h), Repeat(FALSE, w)) :
        c \in {LightGray, Yellow}, h \in {1, PANEL_WIDTH_THRESHOLD},
        w \in {1, PANEL_WIDTH_THRESHOLD}}

\* two rows of panels with a one-row gap, in two columns with a one-column
\* gutter; the second row of panels yellow
GridImage ==
    Paint(Stack(<<<<Black, PANEL_WIDTH_THRESHOLD>>, <<White, 1>>,
                  <<Yellow, PANEL_WIDTH_THRESHOLD>>>>),
          Stack(<<<<FALSE, PANEL_WIDTH_THRESHOLD>>, <<TRUE, 1>>,
                  <<FALSE, PANEL_WIDTH_THRESHOLD>>>>))

SingleImage ==
    Paint(Repeat(Black, PANEL_WIDTH_THRESHOLD), Repeat(FALSE, PANEL_WIDTH_THRESHOLD))

TinyImage == Paint(Repeat(Black, 1), Repeat(FALSE, 1))

PageImages == UNION {BandPages(k) : k \in 1..MaxSegs} \cup UniformPages \cup {GridImage}

PageName == <<"p", ".", "j", "p", "g">>

\* entry names: pages 1 and 10, a name with two dots, a page no encoder is
\* known for, a name without a dot, and a directory
ImageNames ==
    {<<"1", ".", "j", "p", "g">>, <<"1", "0", ".", "j", "p", "g">>,
     <<"1", ".", "0", ".", "j", "p", "g">>, <<"1", ".", "p", "n", "g">>, <<"e">>}
DirName == <<"p", "/">>

\* an entry's bytes are modelled by what they decode to
Entries ==
    [name : ImageNames, kind : {"image"},
     data : {GridImage, SingleImage, TinyImage}]
    \cup [name : ImageNames, kind : {"unidentified", "corrupt"}, data : {<<>>}]
    \cup [name : {DirName}, kind : {"dir"}, data : {<<>>}]

Archives ==
    {a \in SUBSET Entries :
        /\ Cardinality(a) <= MaxEntries
        /\ \A e, f \in a : e.name = f.name => e = f}

Suffixes == {".cbr", ".cbz", ".zip"}

-----------------------------------------------------------------------------
(* main(): from_file, split_panels, save *)

Init ==
    /\ pc = "start"
    /\ archive \in Archives
    /\ inFile = ""
    /\ outFile = ""
    /\ book = <<>>
    /\ outArchive = NoArchive
    /\ err = ""
    /\ page = <<>>
    /\ rows = <<>>
    /\ panels = <<>>
    /\ resplit = <<>>

\* ComicBook.from_file(Path(input_file))
FromFile(suffix, namelist) ==
    /\ pc = "start"
    /\ inFile' = suffix
    /\ LET names == OpenedNames(namelist)
           raises == \E i \in DOMAIN names :
                         PageFromFileRaises(EntryNamed(archive, names[i]))
       IN IF ~KnownSuffix(suffix)
          THEN pc' = "failed" /\ err' = "ValueError" /\ book' = book
          ELSE IF raises
          THEN pc' = "failed" /\ err' = "OSError" /\ book' = book
          ELSE pc' = "loaded" /\ err' = err /\ book' = LoadPages(archive, names)
    /\ UNCHANGED <<archive, outFile, outArchive, page, rows, panels, resplit>>

\* comic_book.split_panels()
SplitPanels ==
    /\ pc = "loaded"
    /\ IF \E i \in DOMAIN book : SplitPanelsRaises(book[i])
       THEN pc' = "failed" /\ err' = "IndexError" /\ book' = book
       ELSE pc' = "split" /\ err' = err /\ book' = SplitPages(book)
    /\ UNCHANGED <<archive, inFile, outFile, outArchive, page, rows, panels, resplit>>

\* comic_book.save(Path(output_file)).  A suffix that is neither .cbr nor
\* .cbz matches no branch of the if/elif: save returns without opening a
\* container.  Both containers are written as lines 136-144 read; whether the
\* rarfile library accepts mode "w" lies outside this source.
Save(suffix) ==
    /\ pc = "split"
    /\ outFile' = suffix
    /\ IF ~KnownSuffix(suffix)
       THEN pc' = "saved" /\ err' = err /\ outArchive' = outArchive
       ELSE /\ outArchive' = [created |-> TRUE, entries |-> WrittenEntries(book)]
            /\ IF \E i \in DOMAIN book : ~SaveFormatKnown(book[i].filename)
               THEN pc' = "failed" /\ err' = "ValueError"
               ELSE pc' = "saved" /\ err' = err
    /\ UNCHANGED <<archive, inFile, book, page, rows, panels, resplit>>

Next ==
    \/ \E suffix \in Suffixes, namelist \in NameLists(archive) :
           FromFile(suffix, namelist)
    \/ SplitPanels
    \/ \E suffix \in Suffixes : Save(suffix)

Spec == Init /\ [][Next]_vars

-----------------------------------------------------------------------------
(* One page: split_into_rows, split_panels, and split_panels again *)

InitPage ==
    /\ pc = "page"
    /\ page \in {[image |-> image, filename |-> PageName] : image \in PageImages}
    /\ archive = {}
    /\ inFile = ""
    /\ outFile = ""
    /\ book = <<>>
    /\ outArchive = NoArchive
    /\ err = ""
    /\ rows = <<>>
    /\ panels = <<>>
    /\ resplit = <<>>

ApplySplitIntoRows ==
    /\ pc = "page"
    /\ rows' = split_into_rows(page.image)
    /\ pc' = "rows"
    /\ UNCHANGED <<archive, inFile, outFile, book, outArchive, err, page, panels, resplit>>

ApplySplitPanels ==
    /\ pc = "rows"
    /\ panels' = ComicBookPage_split_panels(page)
    /\ pc' = "panels"
    /\ UNCHANGED <<archive, inFile, outFile, book, outArchive, err, page, rows, resplit>>

ApplySplitAgain ==
    /\ pc = "panels"
    /\ resplit' = [i \in 1..Len(panels) |-> ComicBookPage_split_panels(panels[i])]
    /\ pc' = "again"
    /\ UNCHANGED <<archive, inFile, outFile, book, outArchive, err, page, rows, panels>>

NextPage == ApplySplitIntoRows \/ ApplySplitPanels \/ ApplySplitAgain

SpecPage == InitPage /\ [][NextPage]_vars

-----------------------------------------------------------------------------
(* Properties of one page *)

WhiteRowSet(image) == {y \in 0..(Height(image) - 1) : IsWhiteRow(image, y)}
WhiteColSet(image) == WhiteRowSet(Rotate270(image))

Min(S) == CHOOSE m \in S : \A n \in S : m <= n
Max(S) == CHOOSE m \in S : \A n \in S : m >= n

\* no pixel of a non-blank row is as bright as the whiteness threshold
FullWidthBands(image) ==
    \A y \in (0..(Height(image) - 1)) \ WhiteRowSet(image) :
        \A x \in 0..(Width(image) - 1) : Luma(GetPixel(image, x, y)) < WHITE_THRESHOLD

\* the page is a band, one run of blank rows, and a band
TwoBands(image) ==
    LET ws == WhiteRowSet(image)
    IN /\ ws # {}
       /\ Min(ws) > 0
       /\ Max(ws) < Height(image) - 1
       /\ Cardinality(ws) = Max(ws) - Min(ws) + 1
       /\ FullWidthBands(image)

UpperBand(image) == Min(WhiteRowSet(image))
Gap(image) == Cardinality(WhiteRowSet(image))
LowerBand(image) == Height(image) - 1 - Max(WhiteRowSet(image))

IndexedName(row, col) == get_new_filename(PageName, row, col)

\* C1 (as claimed): every page yields at least one panel: the row pass
\* returns a band and the column pass returns a panel for every band.
C1_AtLeastOnePanel ==
    pc = "panels" =>
        /\ Len(rows) >= 1
        /\ \A i \in DOMAIN rows : Len(split_into_cols(rows[i])) >= 1
        /\ Len(panels) >= 1

\* two bands separated by fewer than 30 blank rows, each band thick enough
\* and the page wide enough to make a panel
C2_Case ==
    /\ pc = "panels"
    /\ TwoBands(page.image)
    /\ Gap(page.image) < PANEL_WIDTH_THRESHOLD
    /\ UpperBand(page.image) >= PANEL_WIDTH_THRESHOLD
    /\ LowerBand(page.image) >= PANEL_WIDTH_THRESHOLD - 1
    /\ Width(page.image) >= PANEL_WIDTH_THRESHOLD

C3_Case ==
    /\ pc = "panels"
    /\ TwoBands(page.image)
    /\ Gap(page.image) >= PANEL_WIDTH_THRESHOLD
    /\ WHITE_PAGE_DEN * Gap(page.image) <= WHITE_PAGE_NUM * Height(page.image)
    /\ UpperBand(page.image) >= PANEL_WIDTH_THRESHOLD
    /\ LowerBand(page.image) >= PANEL_WIDTH_THRESHOLD - 1
    /\ Width(page.image) >= PANEL_WIDTH_THRESHOLD

BlankPage(image) ==
    \A y \in 0..(Height(image) - 1), x \in 0..(Width(image) - 1) :
        Luma(GetPixel(image, x, y)) >= WHITE_THRESHOLD

\* C4: a fully blank page of any size yields exactly one panel, equal to the
\* whole page.
C4_BlankPageOnePanel ==
    (pc = "panels" /\ BlankPage(page.image))
    => /\ Len(panels) = 1
       /\ panels[1].image = page.image

\* C4: a blank page one pixel wide and 29 rows high, returned as one panel
C4_Witness ==
    /\ pc = "panels"
    /\ BlankPage(page.image)
    /\ page.image.size = <<1, PANEL_WIDTH_THRESHOLD - 1>>
    /\ Len(panels) = 1

\* C8 (as claimed): a page with no blank row and no blank column yields
\* exactly one panel, and splitting that panel again yields exactly one panel
\* with the same pixel grid.
C8_SplitIdempotent ==
    (pc = "again" /\ WhiteRowSet(page.image) = {} /\ WhiteColSet(page.image) = {})
    => /\ Len(panels) = 1
       /\ Len(resplit[1]) = 1
       /\ resplit[1][1].image = panels[1].image

\* the row ranges (upper, lower) of the bands split_into_rows returns
BandRanges(image) ==
    LET white == WhiteRows(image)
    IN IF IsWhitePage(image, white)
       THEN <<<<0, Height(image)>>>>
       ELSE RowBoxes(white, Height(image))

\* C9: the bands of split_into_rows come top to bottom, over pairwise
\* disjoint row ranges [upper, lower) inside [0, height), each the full width
\* of the image, and each holds the image's rows upper..lower-1 in order.
C9_BandsDisjointOrdered ==
    pc = "rows" =>
        LET image == page.image
            r == BandRanges(image)
        IN /\ Len(rows) = Len(r)
           /\ \A i \in DOMAIN r :
                 /\ 0 <= r[i][1] /\ r[i][1] < r[i][2] /\ r[i][2] <= Height(image)
                 /\ i < Len(r) => r[i][2] <= r[i + 1][1]
                 /\ rows[i].size = <<Width(image), r[i][2] - r[i][1]>>
                 /\ \A k \in 0..(r[i][2] - r[i][1] - 1) :
                        rows[i].px[k] = image.px[r[i][1] + k]

\* C9: two bands, with rows discarded between them
C9_Witness ==
    /\ pc = "rows"
    /\ Len(rows) = 2
    /\ Height(rows[1]) + Height(rows[2]) < Height(page.image)

-----------------------------------------------------------------------------
(* Properties of the pipeline *)

\* C5 (as claimed): from_file and save both raise on a path whose suffix is
\* neither .cbr nor .cbz; neither returns normally.
C5_UnknownSuffixFails ==
    /\ (inFile # "" /\ ~KnownSuffix(inFile)) => (pc = "failed" /\ err = "ValueError")
    /\ (outFile # "" /\ ~KnownSuffix(outFile)) => (pc = "failed" /\ err = "ValueError")

\* C6 (as claimed): no entry that fails decoding aborts the load, and the
\* loaded pages are the decodable non-directory entries, in the order of
\* their names.
C6_LoadSkipsUndecodable ==
    (inFile # "" /\ KnownSuffix(inFile)) =>
        /\ err # "OSError"
        /\ pc = "loaded" =>
              /\ {book[i] : i \in DOMAIN book}
                     = {[image |-> e.data, filename |-> e.name] :
                           e \in {f \in archive : f.kind = "image"}}
              /\ \A i, j \in DOMAIN book :
                     i < j => StrLt(book[i].filename, book[j].filename)

\* the text before the extension, which ends in "_rrrr_cccc"
IndexedStem(name) == SplitDot(name)[Len(SplitDot(name)) - 1]

\* the filename of the page a panel was cut from
ParentName(name) ==
    LET fields == SplitDot(name)
        n == Len(fields)
    IN JoinDot([fields EXCEPT ![n - 1] = SubSeq(@, 1, Len(@) - 10)])

RowDigits(name) ==
    LET stem == IndexedStem(name)
    IN SubSeq(stem, Len(stem) - 8, Len(stem) - 5)

ColDigits(name) ==
    LET stem == IndexedStem(name)
    IN SubSeq(stem, Len(stem) - 3, Len(stem))

C10_SplitNamesSorted ==
    pc = "split" =>
        \A j, k \in DOMAIN book : j < k => StrLt(book[j].filename, book[k].filename)

=============================================================================
